---------------------------- MODULE Spec2Model ----------------------------
(***************************************************************************)
(* Model of the ML microservice's model cache (ModelLoader, in             *)
(* ml-service/app/services/model_loader.py) and of its training-job store  *)
(* (TrainingService, in ml-service/app/services/training_service.py).      *)
(***************************************************************************)
EXTENDS Integers, Sequences, FiniteSets, TLC

(***************************************************************************)
(* Bounds of the model.                                                    *)
(***************************************************************************)
NumKeys == 3          \* model ids in use
MaxCacheSize == 2     \* the max_cache_size the loader is constructed with
MaxGets == 4          \* get_model calls in one behaviour
MaxInvalidates == 1   \* invalidate calls in one behaviour
MaxLoadGets == 1      \* get_model calls in one behaviour of the load check
MaxPathLen == 3       \* segments of a caller-supplied path
NumJobs == 3          \* create_job calls in one behaviour
MaxTime == 1          \* ticks of the wall clock in one behaviour
MaxStoreRuns == 1     \* pipelines run in one behaviour of the store check
MaxRunJobs == 2       \* create_job calls in one behaviour of the run check
MaxRuns == 2          \* pipelines run in one behaviour of the run check
MaxUpdates == 1       \* update_job_progress calls from outside run_training
MaxApiJobs == 2       \* create_job calls in one behaviour of the reader check
MaxCallerLogs == 1    \* add_log calls a caller makes on one returned job
MaxCreated == 2       \* create_job calls in one behaviour of the creation check
MaxObsGets == 3       \* get_model calls in one behaviour of the observer check
MaxStats == 1         \* get_cache_stats calls in one behaviour

\* The job-count ceiling the resource-limit tests import from the training
\* service (tests/test_training_routes.py); the service defines none.
MAX_JOBS == 2

\* The sample-count bounds and the per-job log ceiling the same tests
\* import from the training service; the service defines none of them.
MIN_N_SAMPLES == 10
MAX_N_SAMPLES == 1000
MAX_LOGS_PER_JOB == 5

(***************************************************************************)
(* Model ids, engine variants and artifacts.                               *)
(***************************************************************************)
KeyNames == <<"m1", "m2", "m3", "m4", "m5", "m6">>
Keys == {KeyNames[i] : i \in 1..NumKeys}
Threads == {1, 2}                 \* threads calling get_model

ModelTypes == {"ANOMALY_DETECTION", "PREDICTIVE_MAINTENANCE",
               "ENERGY_FORECAST", "EQUIPMENT_RUL"}

MODEL_TYPE_TO_ENGINE ==
    [mt \in ModelTypes |->
        CASE mt = "ANOMALY_DETECTION" -> "AnomalyDetectionEngine"
          [] mt = "PREDICTIVE_MAINTENANCE" -> "PredictiveMaintenanceEngine"
          [] mt = "ENERGY_FORECAST" -> "EnergyForecastingEngine"
          [] mt = "EQUIPMENT_RUL" -> "EquipmentRULEngine"]

EngineClasses == {MODEL_TYPE_TO_ENGINE[mt] : mt \in ModelTypes}

\* The dictionary keys each engine's save_model writes into its artifact.
AnomalySaved == {"algorithm", "model", "scaler", "feature_stats"}
MaintenanceSaved == {"model", "scaler", "engineered_feature_names",
                     "feature_importance", "failure_probability_threshold"}
ForecastSaved == {"algorithm", "model", "scaler", "target_scaler",
                  "feature_names", "training_stats"}
RULSaved == {"model", "scaler", "feature_importance", "feature_columns"}

SavedFields(cls) ==
    CASE cls = "AnomalyDetectionEngine" -> AnomalySaved
      [] cls = "PredictiveMaintenanceEngine" -> MaintenanceSaved
      [] cls = "EnergyForecastingEngine" -> ForecastSaved
      [] cls = "EquipmentRULEngine" -> RULSaved

\* The dictionary keys each engine's load_model reads from the artifact.
AnomalyLoaded == {"algorithm", "model", "scaler", "feature_stats"}
MaintenanceLoaded == {"model", "scaler", "engineered_feature_names",
                      "feature_importance", "failure_probability_threshold"}
ForecastLoaded == {"algorithm", "model", "scaler", "target_scaler",
                   "feature_names", "training_stats"}
RULLoaded == {"model", "scaler", "feature_importance", "feature_columns"}

LoadedFields(cls) ==
    CASE cls = "AnomalyDetectionEngine" -> AnomalyLoaded
      [] cls = "PredictiveMaintenanceEngine" -> MaintenanceLoaded
      [] cls = "EnergyForecastingEngine" -> ForecastLoaded
      [] cls = "EquipmentRULEngine" -> RULLoaded

(***************************************************************************)
(* Paths.  A path is a sequence of segments, absolute or relative to the   *)
(* working directory; ".." is the parent segment.                          *)
(***************************************************************************)
StorageRoot == <<"app", "models">>      \* settings.MODEL_STORAGE_PATH
Cwd == <<"app">>                        \* the service's working directory
Symlinks == [p \in {<<"app", "models", "lnk">>} |-> <<"etc">>]

NoPath == [given |-> FALSE, abs |-> TRUE, segs |-> <<>>]
AbsPath(s) == [given |-> TRUE, abs |-> TRUE, segs |-> s]
RelPath(s) == [given |-> TRUE, abs |-> FALSE, segs |-> s]

IsPrefix(a, b) ==
    /\ Len(a) <= Len(b)
    /\ \A i \in 1..Len(a) : a[i] = b[i]

\* Path.resolve(): walk the segments, dropping a directory for each "..",
\* staying at the filesystem root when there is nothing to drop, and
\* following a symbolic link as soon as it is reached.
RECURSIVE ResolveFrom(_, _)
ResolveFrom(stack, segs) ==
    IF segs = <<>> THEN stack
    ELSE LET s == Head(segs)
             pushed == Append(stack, s)
             next == IF s = ".."
                       THEN (IF stack = <<>> THEN <<>>
                             ELSE SubSeq(stack, 1, Len(stack) - 1))
                     ELSE IF pushed \in DOMAIN Symlinks THEN Symlinks[pushed]
                     ELSE pushed
         IN ResolveFrom(next, Tail(segs))

Resolve(p) == ResolveFrom(IF p.abs THEN <<>> ELSE Cwd, p.segs)

\* a validation that compares the path as written, without resolving it
ValidatePathUnresolved(p) ==
    IF IsPrefix(StorageRoot, (IF p.abs THEN <<>> ELSE Cwd) \o p.segs)
      THEN [ok |-> TRUE, path |-> Resolve(p)]
      ELSE [ok |-> FALSE, path |-> <<>>]

\* _validate_path: the resolved path, or the invalid-path error when
\* relative_to(storage root) raises.
ValidatePath(p) ==
    LET resolved == Resolve(p)
    IN IF IsPrefix(ResolveFrom(<<>>, StorageRoot), resolved)
         THEN [ok |-> TRUE, path |-> resolved]
         ELSE [ok |-> FALSE, path |-> <<>>]

\* The path get_model loads from: the caller's, or root/{model_id}.joblib.
RequestPath(k, p) == IF p.given THEN p ELSE AbsPath(Append(StorageRoot, k))

(***************************************************************************)
(* The file system: directories, and files holding an artifact saved by    *)
(* one of the engines or bytes that are no artifact at all.                *)
(***************************************************************************)
Dirs == {<<>>, <<"app">>, <<"app", "models">>, <<"etc">>}
ClassList == <<"AnomalyDetectionEngine", "PredictiveMaintenanceEngine",
               "EnergyForecastingEngine", "EquipmentRULEngine">>
KeyIndex(k) == CHOOSE i \in 1..Len(KeyNames) : KeyNames[i] = k
ArtifactOf(k) == ClassList[((KeyIndex(k) - 1) % 4) + 1]
Files == {Append(StorageRoot, k) : k \in Keys} \cup {<<"etc", "passwd">>}
FileContent(f) ==
    IF f = <<"etc", "passwd">> THEN "garbage" ELSE ArtifactOf(f[Len(f)])

PathExists(f) == f \in Dirs \/ f \in Files

(***************************************************************************)
(* Engines (model handles) and the outcome of a load.                      *)
(***************************************************************************)
NoHandle == [id |-> 0, class |-> "none", variant |-> "none", epoch |-> 0]
Ok(h) == [kind |-> "ok", h |-> h]
Err(e) == [kind |-> e, h |-> NoHandle]
NoResult == [kind |-> "none", h |-> NoHandle]
NoRequest == [key |-> "none", type |-> "none", path |-> NoPath, id |-> 0]

\* engine.load_model(path): reading a directory is an OSError, bytes that
\* are no artifact fail to unpickle, and an artifact without a field the
\* engine reads is a KeyError.
EngineLoad(cls, f) ==
    IF ~PathExists(f) THEN "FileNotFoundError"
    ELSE IF f \in Dirs THEN "OSError"
    ELSE IF FileContent(f) = "garbage" THEN "Exception"
    ELSE IF ~(LoadedFields(cls) \subseteq SavedFields(FileContent(f)))
      THEN "Exception"
    ELSE "loaded"

\* _create_engine: the engine class the model type maps to.
CreateEngine(mt) ==
    IF mt \in DOMAIN MODEL_TYPE_TO_ENGINE THEN MODEL_TYPE_TO_ENGINE[mt]
    ELSE "ValueError"

\* _validate_model_type: isinstance(engine, expected class).
ValidateModelType(cls, mt) ==
    IF mt \notin DOMAIN MODEL_TYPE_TO_ENGINE THEN "ValueError"
    ELSE IF cls # MODEL_TYPE_TO_ENGINE[mt] THEN "ModelTypeMismatchError"
    ELSE "valid"

\* a _load_model that hands out an unloaded engine when the load fails
LoadModelDefaulting(k, mt, p, id, epoch) ==
    LET v == ValidatePath(RequestPath(k, p))
        cls == CreateEngine(mt)
        loaded == EngineLoad(cls, v.path)
    IN IF v.ok /\ PathExists(v.path) /\ loaded = "loaded"
         THEN Ok([id |-> id, class |-> cls,
                  variant |-> FileContent(v.path), epoch |-> epoch])
       ELSE Ok([id |-> id, class |-> cls, variant |-> "none",
                epoch |-> epoch])

\* _load_model, run by the executor's worker: the engine, or the error.
LoadModel(k, mt, p, id, epoch) ==
    LET v == ValidatePath(RequestPath(k, p))
        cls == CreateEngine(mt)
        loaded == EngineLoad(cls, v.path)
        checked == ValidateModelType(cls, mt)
    IN IF ~v.ok THEN Err("InvalidModelPathError")
       ELSE IF ~PathExists(v.path) THEN Err("ModelNotFoundError")
       ELSE IF loaded = "FileNotFoundError" THEN Err("ModelNotFoundError")
       ELSE IF loaded = "OSError" THEN Err("ModelLoadError")
       ELSE IF loaded = "Exception" THEN Err("ModelLoadError")
       ELSE IF checked = "ModelTypeMismatchError"
         THEN Err("ModelTypeMismatchError")
       ELSE IF checked = "ValueError" THEN Err("ModelLoadError")
       ELSE Ok([id |-> id, class |-> cls,
                variant |-> FileContent(v.path), epoch |-> epoch])

(***************************************************************************)
(* State.                                                                  *)
(***************************************************************************)
VARIABLES
    cache,            \* _cache: sequence of entries, least recently used first
    cache_hits,       \* _cache_hits
    cache_misses,     \* _cache_misses
    duplicate_loads,  \* _duplicate_loads
    pc,               \* where each thread is inside get_model
    req,              \* the arguments of each thread's get_model call
    worker,           \* the executor worker of each thread's load
    loadres,          \* what that worker's _load_model produced
    ret,              \* what each thread's last get_model gave its caller
    invEpoch,         \* invalidate calls completed, per model id
    startEpoch,       \* invEpoch of the key when the thread's call began
    tick,             \* number of recency updates so far
    lastUse,          \* tick of each cached key's latest recency update
    lastEvicted,      \* the key the latest insertion evicted, if any
    race,             \* the latest race of get_model calls on one uncached key
    inv_ret,          \* the latest invalidate call: its key and what it returned
    stats_ret,        \* what the get_cache_stats calls returned, in order
    calls,            \* get_model calls that made their first lookup
    inserts,          \* get_model calls that inserted their engine
    failures          \* get_model calls that raised

obsVars == <<inv_ret, stats_ret, calls, inserts, failures>>
cacheVars == <<cache, cache_hits, cache_misses, duplicate_loads, pc, req,
               worker, loadres, ret, invEpoch, startEpoch, tick, lastUse,
               lastEvicted, race, obsVars>>

\* A race: calls that all missed on the same key before any of them
\* inserted.  size: the calls in the race; open: those still under way;
\* oks: loads of the
\* race that returned an engine; ins, dups: insertions and duplicate_loads
\* increments made by the race; first: the engine the race returned first;
\* disturbed: the key was invalidated or the cache cleared meanwhile;
\* evicted: the key was evicted meanwhile.
NoRace == [key |-> "none", size |-> 0, open |-> 0, oks |-> 0, ins |-> 0,
           dups |-> 0,
           first |-> 0, disturbed |-> FALSE, evicted |-> FALSE]

CachedKeys(c) == {c[i].key : i \in 1..Len(c)}
IndexOf(c, k) == CHOOSE i \in 1..Len(c) : c[i].key = k
Without(c, k) == SelectSeq(c, LAMBDA e : e.key # k)
\* a hit that leaves the entry where it is
MoveToEndSkipped(c, k) == c
\* OrderedDict.move_to_end(key)
MoveToEnd(c, k) == Append(Without(c, k), c[IndexOf(c, k)])
\* an eviction loop that stops one entry early
RECURSIVE EvictLate(_, _)
EvictLate(c, max) ==
    IF Len(c) > max + 1 /\ c # <<>> THEN EvictLate(Tail(c), max) ELSE c
\* the eviction loop: popitem(last=False) while the size exceeds the maximum
RECURSIVE Evict(_, _)
Evict(c, max) == IF Len(c) > max /\ c # <<>> THEN Evict(Tail(c), max) ELSE c

InitCache ==
    /\ cache = <<>>
    /\ cache_hits = 0
    /\ cache_misses = 0
    /\ duplicate_loads = 0
    /\ pc = [t \in Threads |-> "idle"]
    /\ req = [t \in Threads |-> NoRequest]
    /\ worker = [t \in Threads |-> "none"]
    /\ loadres = [t \in Threads |-> NoResult]
    /\ ret = [t \in Threads |-> NoResult]
    /\ invEpoch = [k \in Keys |-> 0]
    /\ startEpoch = [t \in Threads |-> 0]
    /\ tick = 0
    /\ lastUse = [k \in Keys |-> 0]
    /\ lastEvicted = "none"
    /\ race = NoRace
    /\ inv_ret = <<>>
    /\ stats_ret = <<>>
    /\ calls = 0
    /\ inserts = 0
    /\ failures = 0


(***************************************************************************)
(* The training service's state.                                           *)
(***************************************************************************)
VARIABLES
    jobs,       \* _jobs: job id -> TrainingJob
    now,        \* the wall clock read by datetime.now
    wpc,        \* where each worker is inside run_training ("noop": its
                \* last call returned at once; "caught": its last call
                \* returned through the except clause)
    wjob,       \* the job id of the pipeline each worker is running, if any
    runs,       \* per job id, how many run_training calls entered the pipeline
    updates,    \* update_job_progress calls made from outside run_training
    cancel_ret, \* the latest cancel_job call: its job id, the status it found
                \* under the lock and the value it returned
    cancels,    \* per job id, how many cancel_job calls returned True
    held,       \* what the latest create_job, get_job or list_jobs returned:
                \* the objects (by job id) and what they read at that time
    listing     \* the list_jobs call under way, if any

callVars == <<cancel_ret, cancels, held, listing>>
jobVars == <<jobs, now, wpc, wjob, runs, updates, callVars>>
vars == <<cacheVars, jobVars>>

Workers == {1, 2}                 \* threads running run_training
JobIds == 1..NumJobs
None == <<>>
Some(x) == <<x>>

\* A returned value: the objects returned, by job id in the order returned,
\* and the record each of them read when the call returned.
Returned(kind, refs, js) ==
    [kind |-> kind, refs |-> refs, snap |-> [i \in 1..Len(refs) |-> js[refs[i]]]]
NothingHeld == Returned("none", <<>>, <<>>)

InitJobs ==
    /\ jobs = <<>>
    /\ now = 0
    /\ wpc = [w \in Workers |-> "idle"]
    /\ wjob = [w \in Workers |-> 0]
    /\ runs = [j \in JobIds |-> 0]
    /\ updates = 0
    /\ cancel_ret = None
    /\ cancels = [j \in JobIds |-> 0]
    /\ held = NothingHeld
    /\ listing = None

Init == InitCache /\ InitJobs

(***************************************************************************)
(* get_model.                                                              *)
(***************************************************************************)
\* The recency clock: the key touched gets the next tick; a key that is
\* no longer cached has no recency.
Touched(k, c) ==
    /\ tick' = tick + 1
    /\ lastUse' = [x \in Keys |->
                     IF x \notin CachedKeys(c) THEN 0
                     ELSE IF x = k THEN tick + 1 ELSE lastUse[x]]

Forgotten(c) ==
    /\ tick' = tick
    /\ lastUse' = [x \in Keys |-> IF x \in CachedKeys(c) THEN lastUse[x] ELSE 0]

\* The other threads inside a get_model call that missed on key k.
Racers(t, k) == {u \in Threads \ {t} : pc[u] # "idle" /\ req[u].key = k}
\* A race on key k is under way.
RaceOn(k) == race.open > 0 /\ race.key = k

\* a get_model that keeps self._lock while it loads
LockHeldWhileLoading == {t \in Threads : pc[t] # "idle"}
\* The threads inside a with self._lock block between two steps: none,
\* every block being one step and get_model leaving its first block
\* before it loads.
LockHeld == {}
\* Thread t can take the lock.
LockFree(t) == LockHeld \subseteq {t}

\* The first critical section: a hit returns the cached engine, a miss
\* counts itself and submits _load_model to the executor.
GetLookup(t, k, mt, p, budget) ==
    /\ pc[t] = "idle"
    /\ LockFree(t)
    /\ calls' = calls + 1
    /\ UNCHANGED <<inv_ret, stats_ret, inserts, failures>>
    /\ cache_hits + cache_misses < budget
    /\ startEpoch' = [startEpoch EXCEPT ![t] = invEpoch[k]]
    /\ IF k \in CachedKeys(cache)
         THEN /\ cache' = MoveToEnd(cache, k)
              /\ cache_hits' = cache_hits + 1
              /\ ret' = [ret EXCEPT ![t] = Ok(cache[IndexOf(cache, k)].h)]
              /\ Touched(k, cache')
              /\ UNCHANGED <<cache_misses, pc, req, worker, race>>
         ELSE /\ cache_misses' = cache_misses + 1
              /\ pc' = [pc EXCEPT ![t] = "loading"]
              /\ req' = [req EXCEPT ![t] = [key |-> k, type |-> mt, path |-> p,
                                            id |-> cache_misses + 1]]
              /\ worker' = [worker EXCEPT ![t] = "running"]
              /\ ret' = [ret EXCEPT ![t] = NoResult]
              /\ race' = (IF Racers(t, k) # {}
                            THEN [NoRace EXCEPT
                                    !.key = k,
                                    !.size = Cardinality(Racers(t, k)) + 1,
                                    !.open = Cardinality(Racers(t, k)) + 1]
                          ELSE race)
              /\ UNCHANGED <<cache, cache_hits, tick, lastUse>>
    /\ UNCHANGED <<duplicate_loads, loadres, invEpoch, lastEvicted>>
    /\ UNCHANGED jobVars

\* The executor's worker runs _load_model to its end.
WorkerFinish(t) ==
    /\ worker[t] = "running"
    /\ worker' = [worker EXCEPT ![t] = "done"]
    /\ loadres' = [loadres EXCEPT ![t] =
            LoadModel(req[t].key, req[t].type, req[t].path,
                      req[t].id, invEpoch[req[t].key])]
    /\ UNCHANGED <<cache, cache_hits, cache_misses, duplicate_loads, pc, req,
                   ret, invEpoch, startEpoch, tick, lastUse, lastEvicted,
                   race, obsVars>>
    /\ UNCHANGED jobVars

\* future.result(timeout) gives up while the worker is still running: the
\* timeout error is raised inside the executor's with-block, whose exit
\* then waits for the worker (shutdown(wait=True)).
LoadTimeout(t) ==
    /\ pc[t] = "loading"
    /\ worker[t] = "running"
    /\ pc' = [pc EXCEPT ![t] = "shutdown"]
    /\ UNCHANGED <<cache, cache_hits, cache_misses, duplicate_loads, req,
                   worker, loadres, ret, invEpoch, startEpoch, tick, lastUse,
                   lastEvicted, race, obsVars>>
    /\ UNCHANGED jobVars

\* an exit that caches what the worker loaded after all
ExecutorExitCaching(t) ==
    /\ pc[t] = "shutdown"
    /\ worker[t] = "done"
    /\ pc' = [pc EXCEPT ![t] = "idle"]
    /\ ret' = [ret EXCEPT ![t] = Err("ModelLoadTimeoutError")]
    /\ worker' = [worker EXCEPT ![t] = "none"]
    /\ loadres' = [loadres EXCEPT ![t] = NoResult]
    /\ req' = [req EXCEPT ![t] = NoRequest]
    /\ race' = (IF RaceOn(req[t].key) THEN [race EXCEPT !.open = @ - 1]
                ELSE race)
    /\ failures' = failures + 1
    /\ cache' = (IF loadres[t].kind = "ok"
                    /\ req[t].key \notin CachedKeys(cache)
                    /\ Len(cache) < MaxCacheSize
                   THEN Append(cache, [key |-> req[t].key, h |-> loadres[t].h])
                 ELSE cache)
    /\ UNCHANGED <<cache_hits, cache_misses, duplicate_loads,
                   invEpoch, startEpoch, tick, lastUse, lastEvicted,
                   inv_ret, stats_ret, calls, inserts>>
    /\ UNCHANGED jobVars

\* The with-block's exit returns once the worker is done, and the timeout
\* error reaches the caller of get_model.
ExecutorExit(t) ==
    /\ pc[t] = "shutdown"
    /\ worker[t] = "done"
    /\ pc' = [pc EXCEPT ![t] = "idle"]
    /\ ret' = [ret EXCEPT ![t] = Err("ModelLoadTimeoutError")]
    /\ worker' = [worker EXCEPT ![t] = "none"]
    /\ loadres' = [loadres EXCEPT ![t] = NoResult]
    /\ req' = [req EXCEPT ![t] = NoRequest]
    /\ race' = (IF RaceOn(req[t].key) THEN [race EXCEPT !.open = @ - 1]
                ELSE race)
    /\ failures' = failures + 1
    /\ UNCHANGED <<cache, cache_hits, cache_misses, duplicate_loads,
                   invEpoch, startEpoch, tick, lastUse, lastEvicted,
                   inv_ret, stats_ret, calls, inserts>>
    /\ UNCHANGED jobVars

\* a re-check that hands every caller the engine it loaded itself
WinnerOwn(c, k, engine) == engine
\* The engine the second critical section returns: the cached one when
\* another thread inserted the key meanwhile, else the one just loaded.
Winner(c, k, engine) ==
    IF k \in CachedKeys(c) THEN c[IndexOf(c, k)].h ELSE engine

\* a re-check that forgets to count
DuplicateLoadsUncounted(c, k, n) == n
\* _duplicate_loads after the re-check.
DuplicateLoads(c, k, n) == IF k \in CachedKeys(c) THEN n + 1 ELSE n

\* The race record after thread t's call returned from the second critical
\* section (primed variables: what that section did).
Raced(t) ==
    LET k == req[t].key
        lost == /\ race.open > 0
                /\ race.key \in CachedKeys(cache)
                /\ race.key \notin CachedKeys(cache')
        r == [race EXCEPT !.evicted = @ \/ lost]
    IN IF ~RaceOn(k) THEN r
       ELSE IF loadres[t].kind # "ok" THEN [r EXCEPT !.open = @ - 1]
       ELSE [r EXCEPT
               !.open = @ - 1,
               !.oks = @ + 1,
               !.ins = IF k \in CachedKeys(cache) THEN @ ELSE @ + 1,
               !.dups = @ + (duplicate_loads' - duplicate_loads),
               !.first = IF @ = 0 THEN ret'[t].h.id ELSE @]

\* an insertion at the least recently used end
InsertFirst(c, k, engine) == <<[key |-> k, h |-> engine]>> \o c
\* self._cache[cache_key] = engine, for a key that is not cached: the new
\* entry goes to the most recently used end.
Insert(c, k, engine) == Append(c, [key |-> k, h |-> engine])

\* future.result returned in time: an error of _load_model propagates;
\* an engine goes through the second critical section (re-check, insert,
\* evict).
GetFinish(t) ==
    /\ pc[t] = "loading"
    /\ worker[t] = "done"
    /\ LockFree(t)
    /\ pc' = [pc EXCEPT ![t] = "idle"]
    /\ worker' = [worker EXCEPT ![t] = "none"]
    /\ loadres' = [loadres EXCEPT ![t] = NoResult]
    /\ req' = [req EXCEPT ![t] = NoRequest]
    /\ LET k == req[t].key
           engine == loadres[t].h
       IN IF loadres[t].kind # "ok"
            THEN /\ ret' = [ret EXCEPT ![t] = loadres[t]]
                 /\ failures' = failures + 1
                 /\ UNCHANGED <<cache, duplicate_loads, tick, lastUse,
                                lastEvicted, inserts>>
          ELSE IF k \in CachedKeys(cache)
            THEN /\ cache' = MoveToEnd(cache, k)
                 /\ duplicate_loads' = DuplicateLoads(cache, k, duplicate_loads)
                 /\ ret' = [ret EXCEPT ![t] = Ok(Winner(cache, k, engine))]
                 /\ Touched(k, cache')
                 /\ UNCHANGED <<lastEvicted, inserts, failures>>
          ELSE /\ cache' = Evict(Insert(cache, k, engine), MaxCacheSize)
               /\ ret' = [ret EXCEPT ![t] = Ok(Winner(cache, k, engine))]
               /\ Touched(k, cache')
               /\ lastEvicted' = (IF Len(cache) + 1 > MaxCacheSize
                                    THEN Insert(cache, k, engine)[1].key
                                    ELSE "none")
               /\ inserts' = inserts + 1
               /\ UNCHANGED <<duplicate_loads, failures>>
    /\ race' = Raced(t)
    /\ UNCHANGED <<cache_hits, cache_misses, invEpoch, startEpoch,
                   inv_ret, stats_ret, calls>>
    /\ UNCHANGED jobVars

(***************************************************************************)
(* invalidate and clear_cache.                                             *)
(***************************************************************************)
RECURSIVE SumOver(_, _)
SumOver(f, S) ==
    IF S = {} THEN 0
    ELSE LET x == CHOOSE y \in S : TRUE IN f[x] + SumOver(f, S \ {x})

\* an invalidate that returns True whatever it found
RemovedAlways(c, k) == TRUE
\* What invalidate returns: whether the key was cached.
Removed(c, k) == k \in CachedKeys(c)

Invalidate(k) ==
    /\ SumOver(invEpoch, Keys) < MaxInvalidates
    /\ LockHeld = {}
    /\ cache' = (IF k \in CachedKeys(cache) THEN Without(cache, k) ELSE cache)
    /\ inv_ret' = <<[key |-> k, returned |-> Removed(cache, k)]>>
    /\ UNCHANGED <<stats_ret, calls, inserts, failures>>
    /\ invEpoch' = [invEpoch EXCEPT ![k] = invEpoch[k] + 1]
    /\ Forgotten(cache')
    /\ race' = (IF RaceOn(k) THEN [race EXCEPT !.disturbed = TRUE] ELSE race)
    /\ UNCHANGED <<cache_hits, cache_misses, duplicate_loads, pc, req,
                   worker, loadres, ret, startEpoch, lastEvicted>>
    /\ UNCHANGED jobVars

\* a clear_cache that also resets the counters
ClearCacheResetting ==
    /\ cache # <<>>
    /\ LockHeld = {}
    /\ cache' = <<>>
    /\ Forgotten(cache')
    /\ race' = (IF race.open > 0 THEN [race EXCEPT !.disturbed = TRUE]
                ELSE race)
    /\ cache_hits' = 0
    /\ duplicate_loads' = 0
    /\ UNCHANGED <<cache_misses, pc, req, worker, loadres, ret, invEpoch,
                   startEpoch, lastEvicted, obsVars>>
    /\ UNCHANGED jobVars

\* clear_cache: every entry goes, the counters stay.
ClearCache ==
    /\ cache # <<>>
    /\ LockHeld = {}
    /\ UNCHANGED obsVars
    /\ cache' = <<>>
    /\ Forgotten(cache')
    /\ race' = (IF race.open > 0 THEN [race EXCEPT !.disturbed = TRUE]
                ELSE race)
    /\ UNCHANGED <<cache_hits, cache_misses, duplicate_loads, pc, req,
                   worker, loadres, ret, invEpoch, startEpoch, lastEvicted>>
    /\ UNCHANGED jobVars

\* a snapshot that reports a full cache
SnapshotFull(c, hits, misses, dups) ==
    [cached_models |-> MaxCacheSize,
     max_cache_size |-> MaxCacheSize,
     cache_hits |-> hits,
     cache_misses |-> misses,
     duplicate_loads |-> dups]
\* The dictionary get_cache_stats builds (without the hit rate and the
\* load timeout).
Snapshot(c, hits, misses, dups) ==
    [cached_models |-> Len(c),
     max_cache_size |-> MaxCacheSize,
     cache_hits |-> hits,
     cache_misses |-> misses,
     duplicate_loads |-> dups]

\* get_cache_stats: one critical section.
GetCacheStats ==
    /\ Len(stats_ret) < MaxStats
    /\ LockHeld = {}
    /\ stats_ret' = Append(stats_ret, Snapshot(cache, cache_hits, cache_misses,
                                               duplicate_loads))
    /\ UNCHANGED <<cache, cache_hits, cache_misses, duplicate_loads, pc, req,
                   worker, loadres, ret, invEpoch, startEpoch, tick, lastUse,
                   lastEvicted, race, inv_ret, calls, inserts, failures>>
    /\ UNCHANGED jobVars

(***************************************************************************)
(* The cache under concurrent callers.                                     *)
(***************************************************************************)
\* The requests of the concurrent callers: each model under the type of
\* its artifact, and the first model under another type as well.
RightType(k) ==
    CHOOSE mt \in ModelTypes : MODEL_TYPE_TO_ENGINE[mt] = ArtifactOf(k)
CacheRequests ==
    {<<k, RightType(k)>> : k \in Keys} \cup {<<"m1", "EQUIPMENT_RUL">>}

NextCache ==
    \/ \E t \in Threads, r \in CacheRequests :
            GetLookup(t, r[1], r[2], NoPath, MaxGets)
    \/ \E t \in Threads : WorkerFinish(t)
    \/ \E t \in Threads : LoadTimeout(t)
    \/ \E t \in Threads : ExecutorExit(t)
    \/ \E t \in Threads : GetFinish(t)
    \/ \E k \in Keys : Invalidate(k)
    \/ ClearCache

Spec == Init /\ [][NextCache]_vars

(***************************************************************************)
(* The cache under concurrent callers, some of whose loads fail, and an    *)
(* observer calling get_cache_stats.                                       *)
(***************************************************************************)
\* Each model under the type of its artifact, and the first model under
\* another type, from a path outside the storage root and from a path
\* that names no file.
ObsRequests ==
    {<<k, RightType(k), NoPath>> : k \in Keys}
        \cup {<<"m1", "EQUIPMENT_RUL", NoPath>>,
              <<"m1", RightType("m1"), AbsPath(<<"etc", "passwd">>)>>,
              <<"m1", RightType("m1"), AbsPath(<<"app", "models", "gone">>)>>}

NextObserve ==
    \/ \E t \in Threads, r \in ObsRequests :
            GetLookup(t, r[1], r[2], r[3], MaxObsGets)
    \/ \E t \in Threads : WorkerFinish(t)
    \/ \E t \in Threads : LoadTimeout(t)
    \/ \E t \in Threads : ExecutorExit(t)
    \/ \E t \in Threads : GetFinish(t)
    \/ \E k \in Keys : Invalidate(k)
    \/ ClearCache
    \/ GetCacheStats

ObserveSpec == Init /\ [][NextObserve]_vars

(***************************************************************************)
(* One caller, every model type and every path up to MaxPathLen segments.  *)
(***************************************************************************)
Segments == {"..", "app", "models", "etc", "lnk", "m1"}
SegSeqs(n) == UNION {[1..m -> Segments] : m \in 0..n}
LoadPaths ==
    {NoPath} \cup {AbsPath(s) : s \in SegSeqs(MaxPathLen)}
             \cup {RelPath(s) : s \in SegSeqs(MaxPathLen)}

NextLoad ==
    \/ \E k \in Keys, mt \in ModelTypes, p \in LoadPaths :
            GetLookup(1, k, mt, p, MaxLoadGets)
    \/ WorkerFinish(1)
    \/ LoadTimeout(1)
    \/ ExecutorExit(1)
    \/ GetFinish(1)

LoadSpec == Init /\ [][NextLoad]_vars

(***************************************************************************)
(* TrainingService: create_job, update_job_progress, cancel_job.           *)
(***************************************************************************)
Terminal == {"COMPLETED", "FAILED", "CANCELLED"}
Log(m, n) == [m |-> m, n |-> n]

\* a constructor that stamps started_at
TrainingJobStarted(model_id, organization_id, model_type, n_samples, created) ==
    [model_id |-> model_id,
     organization_id |-> organization_id,
     model_type |-> model_type,
     n_samples |-> n_samples,
     status |-> "PENDING",
     record_count |-> None,
     progress_percent |-> 0,
     current_step |-> None,
     result_metrics |-> "empty",
     error_message |-> None,
     started_at |-> Some(created),
     completed_at |-> None,
     duration_seconds |-> None,
     created_at |-> created,
     logs |-> <<>>]

\* TrainingJob.__init__
TrainingJob(model_id, organization_id, model_type, n_samples, created) ==
    [model_id |-> model_id,
     organization_id |-> organization_id,
     model_type |-> model_type,
     n_samples |-> n_samples,
     status |-> "PENDING",
     record_count |-> None,
     progress_percent |-> 0,
     current_step |-> None,
     result_metrics |-> "empty",
     error_message |-> None,
     started_at |-> None,
     completed_at |-> None,
     duration_seconds |-> None,
     created_at |-> created,
     logs |-> <<>>]

\* TrainingJob.add_log
AddLog(job, entry) == [job EXCEPT !.logs = Append(@, entry)]

\* uuid4(): an id no job has had
NewJobId == Cardinality(DOMAIN jobs) + 1

JobModels == {"m1"}
OrgIds == {1}
JobTypes == {"ANOMALY_DETECTION"}
SampleCounts == {100}
\* n_samples at and next to the bounds the tests name
EdgeSampleCounts ==
    {MIN_N_SAMPLES - 1, MIN_N_SAMPLES, MAX_N_SAMPLES, MAX_N_SAMPLES + 1}

CreateJob(model_id, organization_id, model_type, n_samples, budget) ==
    /\ Cardinality(DOMAIN jobs) < budget
    /\ LET job == TrainingJob(model_id, organization_id, model_type,
                              n_samples, now)
       IN jobs' = [j \in DOMAIN jobs \cup {NewJobId} |->
                    IF j = NewJobId THEN AddLog(job, Log("created", 0))
                    ELSE jobs[j]]
    /\ held' = Returned("job", <<NewJobId>>, jobs')
    /\ UNCHANGED <<now, wpc, wjob, runs, updates, cancel_ret, cancels, listing>>
    /\ UNCHANGED cacheVars

\* update_job_progress: the job store after the call
WithProgress(js, j, percent, step) ==
    IF j \in DOMAIN js
      THEN [js EXCEPT ![j] = AddLog([@ EXCEPT !.progress_percent = percent,
                                             !.current_step = Some(step)],
                                   Log("progress", percent))]
    ELSE js

ExtPercents == {5, 50}

\* update_job_progress called by some other thread than the job's worker
UpdateJobProgress(j, percent) ==
    /\ updates < MaxUpdates
    /\ updates' = updates + 1
    /\ jobs' = WithProgress(jobs, j, percent, "external")
    /\ UNCHANGED <<now, wpc, wjob, runs>>
    /\ UNCHANGED callVars
    /\ UNCHANGED cacheVars

Elapsed(job, t) ==
    IF job.started_at # None THEN Some(t - job.started_at[1])
    ELSE job.duration_seconds

\* cancel_job, with the statuses it takes for cancellable.
CancelWith(j, cancellable) ==
    /\ IF j \notin DOMAIN jobs
         THEN /\ cancel_ret' = Some([job |-> j, found |-> "absent",
                                     returned |-> FALSE])
              /\ UNCHANGED <<jobs, cancels>>
       ELSE IF jobs[j].status \notin cancellable
         THEN /\ cancel_ret' = Some([job |-> j, found |-> jobs[j].status,
                                     returned |-> FALSE])
              /\ UNCHANGED <<jobs, cancels>>
       ELSE /\ jobs' = [jobs EXCEPT ![j] =
                    AddLog([@ EXCEPT !.status = "CANCELLED",
                                     !.completed_at = Some(now),
                                     !.duration_seconds = Elapsed(jobs[j], now)],
                           Log("cancelled", 0))]
            /\ cancel_ret' = Some([job |-> j, found |-> jobs[j].status,
                                   returned |-> TRUE])
            /\ cancels' = [cancels EXCEPT ![j] = @ + 1]
    /\ UNCHANGED <<now, wpc, wjob, runs, updates, held, listing>>
    /\ UNCHANGED cacheVars

\* a cancel_job that refuses RUNNING jobs
CancelJobPendingOnly(j) == CancelWith(j, {"PENDING"})
\* a cancel_job that refuses only FAILED and CANCELLED jobs
CancelJobUnlessStopped(j) ==
    CancelWith(j, {"PENDING", "RUNNING", "COMPLETED"})
CancelJob(j) == CancelWith(j, {"PENDING", "RUNNING"})

\* The wall clock moves on.
Tick ==
    /\ now < MaxTime
    /\ now' = now + 1
    /\ UNCHANGED <<jobs, wpc, wjob, runs, updates>>
    /\ UNCHANGED callVars
    /\ UNCHANGED cacheVars

(***************************************************************************)
(* TrainingService.run_training, one step per critical section.            *)
(***************************************************************************)
Free(w) == wpc[w] \in {"idle", "noop", "caught"}

\* a first critical section that also lets a RUNNING job through
RunStartAnyActive(w, j, budget) ==
    /\ Free(w)
    /\ (j \in DOMAIN jobs /\ jobs[j].status \in {"PENDING", "RUNNING"}) =>
            SumOver(runs, JobIds) < budget
    /\ IF j \notin DOMAIN jobs
         THEN /\ wpc' = [wpc EXCEPT ![w] = "noop"]
              /\ UNCHANGED <<jobs, runs, wjob>>
       ELSE IF jobs[j].status \notin {"PENDING", "RUNNING"}
         THEN /\ wpc' = [wpc EXCEPT ![w] = "noop"]
              /\ UNCHANGED <<jobs, runs, wjob>>
       ELSE /\ wpc' = [wpc EXCEPT ![w] = "p10"]
            /\ wjob' = [wjob EXCEPT ![w] = j]
            /\ jobs' = [jobs EXCEPT ![j] =
                    AddLog([@ EXCEPT !.status = "RUNNING",
                                     !.started_at = Some(now)],
                           Log("started", 0))]
            /\ runs' = [runs EXCEPT ![j] = @ + 1]
    /\ UNCHANGED <<now, updates>>
    /\ UNCHANGED callVars
    /\ UNCHANGED cacheVars

\* The first critical section: a missing job or a job that is not PENDING
\* ends the call; a PENDING job becomes RUNNING.
RunStart(w, j, budget) ==
    /\ Free(w)
    /\ (j \in DOMAIN jobs /\ jobs[j].status = "PENDING") =>
            SumOver(runs, JobIds) < budget
    /\ IF j \notin DOMAIN jobs
         THEN /\ wpc' = [wpc EXCEPT ![w] = "noop"]
              /\ UNCHANGED <<jobs, runs, wjob>>
       ELSE IF jobs[j].status # "PENDING"
         THEN /\ wpc' = [wpc EXCEPT ![w] = "noop"]
              /\ UNCHANGED <<jobs, runs, wjob>>
       ELSE /\ wpc' = [wpc EXCEPT ![w] = "p10"]
            /\ wjob' = [wjob EXCEPT ![w] = j]
            /\ jobs' = [jobs EXCEPT ![j] =
                    AddLog([@ EXCEPT !.status = "RUNNING",
                                     !.started_at = Some(now)],
                           Log("started", 0))]
            /\ runs' = [runs EXCEPT ![j] = @ + 1]
    /\ UNCHANGED <<now, updates>>
    /\ UNCHANGED callVars
    /\ UNCHANGED cacheVars

\* Steps 1, 2 and 4 open with a progress update of their own.
RunProgress(w) ==
    /\ wpc[w] \in {"p10", "p20", "p90"}
    /\ jobs' = WithProgress(jobs, wjob[w],
                 CASE wpc[w] = "p10" -> 10 [] wpc[w] = "p20" -> 20
                   [] wpc[w] = "p90" -> 90,
                 "pipeline")
    /\ wpc' = [wpc EXCEPT ![w] =
                 CASE wpc[w] = "p10" -> "gen" [] wpc[w] = "p20" -> "engine"
                   [] wpc[w] = "p90" -> "save"]
    /\ UNCHANGED <<now, wjob, runs, updates>>
    /\ UNCHANGED callVars
    /\ UNCHANGED cacheVars

\* _generate_mock_data returned: the record count is stored.
RunGenerate(w) ==
    /\ wpc[w] = "gen"
    /\ jobs' = [jobs EXCEPT ![wjob[w]].record_count =
                                Some(jobs[wjob[w]].n_samples)]
    /\ wpc' = [wpc EXCEPT ![w] = "p20"]
    /\ UNCHANGED <<now, wjob, runs, updates>>
    /\ UNCHANGED callVars
    /\ UNCHANGED cacheVars

\* _create_engine returned: progress 30.
RunCreateEngine(w) ==
    /\ wpc[w] = "engine"
    /\ jobs' = WithProgress(jobs, wjob[w], 30, "pipeline")
    /\ wpc' = [wpc EXCEPT ![w] = "train"]
    /\ UNCHANGED <<now, wjob, runs, updates>>
    /\ UNCHANGED callVars
    /\ UNCHANGED cacheVars

\* engine.train returned: progress 80.
RunTrain(w) ==
    /\ wpc[w] = "train"
    /\ jobs' = WithProgress(jobs, wjob[w], 80, "pipeline")
    /\ wpc' = [wpc EXCEPT ![w] = "p90"]
    /\ UNCHANGED <<now, wjob, runs, updates>>
    /\ UNCHANGED callVars
    /\ UNCHANGED cacheVars

\* The job after step 5.
Completed(job, t) ==
    AddLog(AddLog([job EXCEPT !.status = "COMPLETED",
                              !.progress_percent = 100,
                              !.current_step = Some("complete"),
                              !.result_metrics = "metrics",
                              !.completed_at = Some(t),
                              !.duration_seconds = Some(t - job.started_at[1])],
                  Log("completed", 0)),
           Log("metrics", 0))

\* engine.save_model returned: step 5 marks the job completed.
RunComplete(w) ==
    /\ wpc[w] = "save"
    /\ jobs' = [jobs EXCEPT ![wjob[w]] = Completed(@, now)]
    /\ wpc' = [wpc EXCEPT ![w] = "idle"]
    /\ wjob' = [wjob EXCEPT ![w] = 0]
    /\ UNCHANGED <<now, runs, updates>>
    /\ UNCHANGED callVars
    /\ UNCHANGED cacheVars

\* an except clause that marks the job failed without the message
FailedUnexplained(job, t, message) ==
    AddLog([job EXCEPT !.status = "FAILED",
                       !.completed_at = Some(t),
                       !.duration_seconds = Elapsed(job, t)],
           Log("failed", 0))

\* The job after the except clause.
Failed(job, t, message) ==
    AddLog([job EXCEPT !.status = "FAILED",
                       !.error_message = Some(message),
                       !.completed_at = Some(t),
                       !.duration_seconds = Elapsed(job, t)],
           Log("failed", 0))

\* The stages of the pipeline: _generate_mock_data, _create_engine,
\* engine.train, engine.save_model.
Stages == {"gen", "engine", "train", "save"}

\* A stage of the pipeline raised: the except clause marks the job failed.
RunFail(w) ==
    /\ wpc[w] \in Stages
    /\ jobs' = [jobs EXCEPT ![wjob[w]] = Failed(@, now, wpc[w])]
    /\ wpc' = [wpc EXCEPT ![w] = "caught"]
    /\ wjob' = [wjob EXCEPT ![w] = 0]
    /\ UNCHANGED <<now, runs, updates>>
    /\ UNCHANGED callVars
    /\ UNCHANGED cacheVars

NextJobs ==
    \/ \E m \in JobModels, o \in OrgIds, mt \in JobTypes, n \in SampleCounts :
            CreateJob(m, o, mt, n, NumJobs)
    \/ \E j \in JobIds : CancelJob(j)
    \/ Tick
    \/ \E w \in Workers, j \in JobIds : RunStart(w, j, MaxStoreRuns)
    \/ \E w \in Workers : RunProgress(w)
    \/ \E w \in Workers : RunGenerate(w)
    \/ \E w \in Workers : RunCreateEngine(w)
    \/ \E w \in Workers : RunTrain(w)
    \/ \E w \in Workers : RunComplete(w)
    \/ \E w \in Workers : RunFail(w)

JobSpec == Init /\ [][NextJobs]_vars

(***************************************************************************)
(* Two workers racing through run_training and cancel_job.                 *)
(***************************************************************************)
NextRun ==
    \/ \E m \in JobModels, o \in OrgIds, mt \in JobTypes, n \in SampleCounts :
            CreateJob(m, o, mt, n, MaxRunJobs)
    \/ \E j \in JobIds : CancelJob(j)
    \/ Tick
    \/ \E w \in Workers, j \in JobIds : RunStart(w, j, MaxRuns)
    \/ \E w \in Workers : RunProgress(w)
    \/ \E w \in Workers : RunGenerate(w)
    \/ \E w \in Workers : RunCreateEngine(w)
    \/ \E w \in Workers : RunTrain(w)
    \/ \E w \in Workers : RunComplete(w)
    \/ \E w \in Workers : RunFail(w)

RunSpec == Init /\ [][NextRun]_vars

\* A worker inside the pipeline takes its next step: the stage it is in
\* returns or raises.
RunStep(w) ==
    \/ RunProgress(w)
    \/ RunGenerate(w)
    \/ RunCreateEngine(w)
    \/ RunTrain(w)
    \/ RunComplete(w)
    \/ RunFail(w)

(***************************************************************************)
(* One job, its worker, and progress updates from other threads.           *)
(***************************************************************************)
NextProgress ==
    \/ \E m \in JobModels, o \in OrgIds, mt \in JobTypes,
          n \in EdgeSampleCounts :
            CreateJob(m, o, mt, n, 1)
    \/ \E j \in JobIds, pct \in ExtPercents : UpdateJobProgress(j, pct)
    \/ \E j \in JobIds : CancelJob(j)
    \/ Tick
    \/ \E j \in JobIds : RunStart(1, j, 1)
    \/ RunProgress(1)
    \/ RunGenerate(1)
    \/ RunCreateEngine(1)
    \/ RunTrain(1)
    \/ RunComplete(1)
    \/ RunFail(1)

ProgressSpec == Init /\ [][NextProgress]_vars

(***************************************************************************)
(* get_job and list_jobs, what their callers do with the result, and jobs   *)
(* being started meanwhile.                                                *)
(***************************************************************************)
\* get_job: the stored TrainingJob object, or None.
GetJob(j) ==
    /\ held' = (IF j \in DOMAIN jobs THEN Returned("job", <<j>>, jobs)
                ELSE NothingHeld)
    /\ UNCHANGED <<jobs, now, wpc, wjob, runs, updates, cancel_ret, cancels,
                   listing>>
    /\ UNCHANGED cacheVars

\* list(self._jobs.values()): the stored objects in insertion order.
StoredOrder(js) == [i \in 1..Cardinality(DOMAIN js) |-> i]

\* The three filters, applied to the objects as they are now.
Filtered(refs, js, organization_id, model_id, status) ==
    LET byOrg == IF organization_id # None
                   THEN SelectSeq(refs, LAMBDA j :
                            js[j].organization_id = organization_id[1])
                 ELSE refs
        byModel == IF model_id # None
                     THEN SelectSeq(byOrg, LAMBDA j :
                              js[j].model_id = model_id[1])
                   ELSE byOrg
    IN IF status # None
         THEN SelectSeq(byModel, LAMBDA j : js[j].status = status[1])
       ELSE byModel

\* a sort that leaves out reverse=True
RECURSIVE SortByCreatedAscending(_, _)
SortByCreatedAscending(refs, js) ==
    IF refs = <<>> THEN <<>>
    ELSE LET j == refs[Len(refs)]
             front == SortByCreatedAscending(SubSeq(refs, 1, Len(refs) - 1), js)
             before == SelectSeq(front, LAMBDA i :
                           js[i].created_at <= js[j].created_at)
             after == SelectSeq(front, LAMBDA i :
                           js[i].created_at > js[j].created_at)
         IN before \o <<j>> \o after

\* jobs.sort(key=created_at, reverse=True): a stable sort, so jobs created
\* at the same time keep the order they had.
RECURSIVE SortByCreated(_, _)
SortByCreated(refs, js) ==
    IF refs = <<>> THEN <<>>
    ELSE LET j == refs[Len(refs)]
             front == SortByCreated(SubSeq(refs, 1, Len(refs) - 1), js)
             before == SelectSeq(front, LAMBDA i :
                           js[i].created_at >= js[j].created_at)
             after == SelectSeq(front, LAMBDA i :
                           js[i].created_at < js[j].created_at)
         IN before \o <<j>> \o after

\* list_jobs, under the lock: the list of stored objects is copied.
ListCopy(organization_id, model_id, status) ==
    /\ listing = None
    /\ listing' = Some([refs |-> StoredOrder(jobs),
                        organization_id |-> organization_id,
                        model_id |-> model_id,
                        status |-> status])
    /\ UNCHANGED <<jobs, now, wpc, wjob, runs, updates, cancel_ret, cancels,
                   held>>
    /\ UNCHANGED cacheVars

\* list_jobs, after the lock: filter, sort, return.
ListReturn ==
    /\ listing # None
    /\ LET call == listing[1]
       IN held' = Returned("list",
                    SortByCreated(Filtered(call.refs, jobs,
                                           call.organization_id,
                                           call.model_id, call.status),
                                  jobs),
                    jobs)
    /\ listing' = None
    /\ UNCHANGED <<jobs, now, wpc, wjob, runs, updates, cancel_ret, cancels>>
    /\ UNCHANGED cacheVars

\* What a caller reads through a returned value: the objects are the
\* stored TrainingJob objects themselves.
ReadThrough(h, js) == [i \in 1..Len(h.refs) |-> js[h.refs[i]]]

\* Log lines a caller added to a job.
CallerLogs(job) ==
    Cardinality({i \in 1..Len(job.logs) : job.logs[i].m = "caller"})

\* A caller calls add_log on a job it was handed: the object is the stored
\* one.
CallerAddLog(i) ==
    /\ i \in 1..Len(held.refs)
    /\ CallerLogs(jobs[held.refs[i]]) < MaxCallerLogs
    /\ jobs' = [jobs EXCEPT ![held.refs[i]] = AddLog(@, Log("caller", 0))]
    /\ UNCHANGED <<now, wpc, wjob, runs, updates>>
    /\ UNCHANGED callVars
    /\ UNCHANGED cacheVars

ApiModels == {"m1", "m2"}
ApiOrgs == {1, 2}
Statuses == {"PENDING", "RUNNING", "COMPLETED", "FAILED", "CANCELLED"}
Optional(S) == {None} \cup {Some(x) : x \in S}

NextApi ==
    \/ \E m \in ApiModels, o \in ApiOrgs, mt \in JobTypes, n \in SampleCounts :
            CreateJob(m, o, mt, n, MaxApiJobs)
    \/ \E j \in JobIds : GetJob(j)
    \/ \E o \in Optional(ApiOrgs), m \in Optional(ApiModels),
          st \in Optional(Statuses) : ListCopy(o, m, st)
    \/ ListReturn
    \/ \E i \in 1..MaxApiJobs : CallerAddLog(i)
    \/ Tick
    \/ \E j \in JobIds : RunStart(1, j, MaxApiJobs)

ApiSpec == Init /\ [][NextApi]_vars

(***************************************************************************)
(* create_job with any organization id, get_job, and the calls that may    *)
(* come between them.                                                      *)
(***************************************************************************)
CreateOrgs == {-1, 0, 1}

NextCreate ==
    \/ \E m \in JobModels, o \in CreateOrgs, mt \in JobTypes,
          n \in SampleCounts :
            CreateJob(m, o, mt, n, MaxCreated)
    \/ \E j \in JobIds : GetJob(j)
    \/ \E j \in JobIds, pct \in ExtPercents : UpdateJobProgress(j, pct)
    \/ \E j \in JobIds : CancelJob(j)
    \/ Tick
    \/ \E j \in JobIds : RunStart(1, j, MaxCreated)

CreateSpec == Init /\ [][NextCreate]_vars

\* The same, with the worker thread scheduled again and again.
ProgressFairSpec == ProgressSpec /\ WF_vars(RunStep(1))

(***************************************************************************)
(* Properties of the cache.                                                *)
(***************************************************************************)

\* C2: whenever the cache lock is free (every state of the model, the
\* critical sections being single steps) the cache holds at most
\* max_cache_size entries, whatever get, invalidate and clear calls ran.
C2_CacheBounded == Len(cache) <= MaxCacheSize

\* an insertion found the cache full and evicted to restore the bound
C2_Witness == lastEvicted # "none" /\ Len(cache) = MaxCacheSize

\* C3: when an insertion by get evicts, every evicted key was touched
\* (inserted, hit or re-checked) earlier than every key that stays, and
\* no more keys are evicted than the bound requires.
C3_EvictsLeastRecentlyUsed ==
    [][LET before == CachedKeys(cache)
           after == CachedKeys(cache')
       IN (after \ before # {}) =>
            /\ \A e \in before \ after : \A o \in before \cap after :
                    lastUse[e] < lastUse[o]
            /\ (before \ after # {}) => Len(cache') = MaxCacheSize]_vars

\* the second model loaded was evicted although the first one is older,
\* because the first one was hit in between
C3_Witness ==
    /\ lastEvicted = "m2"
    /\ cache_hits > 0
    /\ CachedKeys(cache) = {"m1", "m3"}
    /\ cache[1].key = "m1"
    /\ cache[1].h.id = 1

\* C4: a get that started after an invalidate of its key returned gives
\* its caller an engine whose load read the artifact after that
\* invalidate.
C4_FreshAfterInvalidate ==
    \A t \in Threads :
        (pc[t] = "idle" /\ ret[t].kind = "ok") =>
            ret[t].h.epoch >= startEpoch[t]

\* The request's path resolves to the storage root or below it.
InsideRoot(r) == IsPrefix(StorageRoot, Resolve(RequestPath(r.key, r.path)))
\* The request's path resolves strictly below the storage root.
StrictlyInsideRoot(r) ==
    InsideRoot(r) /\ Resolve(RequestPath(r.key, r.path)) # StorageRoot
\* Thread t's get_model returns in this step, from a load that finished
\* before the timeout.
ReturnsFromLoad(t) == pc[t] = "loading" /\ pc'[t] = "idle"
\* Thread t's get_model returns in this step after its load timed out.
ReturnsFromTimeout(t) == pc[t] = "shutdown" /\ pc'[t] = "idle"

WrongVariant(r) ==
    LET f == Resolve(RequestPath(r.key, r.path))
    IN /\ InsideRoot(r)
       /\ f \in Files
       /\ FileContent(f) \in EngineClasses
       /\ FileContent(f) # MODEL_TYPE_TO_ENGINE[r.type]

\* C6: a get for an artifact of another variant fails with the
\* type-mismatch error and caches nothing, and an engine is returned only
\* for an artifact of the requested variant.
C6_TypeMismatchRejected ==
    [][\A t \in Threads :
        ReturnsFromLoad(t) =>
            /\ WrongVariant(req[t]) =>
                    ret'[t].kind = "ModelTypeMismatchError" /\ cache' = cache
            /\ ret'[t].kind = "ok" =>
                    ret'[t].h.variant = MODEL_TYPE_TO_ENGINE[req[t].type]]_vars

\* Thread t's call, one of a race, returns an engine in this step.
RaceReturns(t) ==
    /\ ReturnsFromLoad(t)
    /\ RaceOn(req[t].key)
    /\ ret'[t].kind = "ok"
\* The last call of a race returns in this step.
RaceEnds == race.open > 0 /\ race'.open = 0 /\ race'.key = race.key

C18_RaceCountedOnce ==
    [][(RaceEnds /\ race'.oks = race'.size) =>
            race'.ins <= 1 /\ race'.dups = 1]_vars

\* C18, amended: a race during which the key was neither invalidated,
\* cleared nor evicted makes one insertion if any of its loads returned an
\* engine, and increments duplicate_loads once for each other load that
\* returned one.
C18_UndisturbedRaceCounted ==
    [][(RaceEnds /\ ~race'.disturbed /\ ~race'.evicted) =>
            /\ race'.ins = (IF race'.oks > 0 THEN 1 ELSE 0)
            /\ race'.dups = race'.oks - race'.ins]_vars

\* two calls raced on one key: one inserted its engine, the other counted
\* a duplicate load
C18_Witness ==
    /\ race.size = 2 /\ race.open = 0 /\ race.oks = 2
    /\ race.ins = 1 /\ race.dups = 1
    /\ duplicate_loads = 1
    /\ ~race.disturbed /\ ~race.evicted

\* An invalidate call returns in this step.
InvalidateReturns == invEpoch' # invEpoch

\* C23: invalidate(k) returns True exactly when k was cached at the call;
\* afterwards k is not cached, and the other entries, their order and the
\* hit, miss and duplicate_loads counters are as before.
C23_InvalidateRemovesOnlyItsKey ==
    [][InvalidateReturns =>
        LET k == inv_ret'[1].key
        IN /\ invEpoch'[k] = invEpoch[k] + 1
           /\ inv_ret'[1].returned = (k \in CachedKeys(cache))
           /\ k \notin CachedKeys(cache')
           /\ SelectSeq(cache', LAMBDA e : e.key # k)
                 = SelectSeq(cache, LAMBDA e : e.key # k)
           /\ Len(cache') = Len(cache) - (IF k \in CachedKeys(cache) THEN 1
                                          ELSE 0)
           /\ <<cache_hits', cache_misses', duplicate_loads'>>
                 = <<cache_hits, cache_misses, duplicate_loads>>]_vars

\* an invalidate found its key cached next to another entry that had been
\* hit, removed it and returned True
C23_Witness ==
    /\ inv_ret # <<>>
    /\ inv_ret[1].returned
    /\ inv_ret[1].key \notin CachedKeys(cache)
    /\ Len(cache) = 1
    /\ inserts = 2
    /\ cache_hits = 1

\* C24: every result of get_cache_stats holds the size and the counters
\* the cache had together in the state the call ran in, so its size is at
\* most max_cache_size and its duplicate_loads at most its misses.
C24_StatsAreOneInstant ==
    /\ [][stats_ret' # stats_ret =>
            LET st == stats_ret'[Len(stats_ret')]
            IN /\ st.cached_models = Len(cache)
               /\ st.max_cache_size = MaxCacheSize
               /\ st.cache_hits = cache_hits
               /\ st.cache_misses = cache_misses
               /\ st.duplicate_loads = duplicate_loads
               /\ cache' = cache]_vars
    /\ [](\A i \in 1..Len(stats_ret) :
            /\ stats_ret[i].cached_models <= stats_ret[i].max_cache_size
            /\ stats_ret[i].duplicate_loads <= stats_ret[i].cache_misses)

\* get_cache_stats ran while the third get was loading, after the first
\* two had raced on one key
C24_Witness ==
    /\ stats_ret # <<>>
    /\ stats_ret[1].cache_misses = 3
    /\ stats_ret[1].duplicate_loads = 1
    /\ stats_ret[1].cached_models = 1
    /\ \E t \in Threads : pc[t] = "loading" /\ req[t].id = 3

\* Thread t is inside the load of its get_model call.
Loading(t) == pc[t] = "loading" /\ worker[t] = "running"

FailedReturn(t) ==
    /\ ReturnsFromLoad(t) \/ ReturnsFromTimeout(t)
    /\ ret'[t].kind # "ok"
\* Thread t's get_model call misses in this step.
Misses(t) == pc[t] = "idle" /\ pc'[t] = "loading"
\* The error classes of model_loader.py.
TypedErrors ==
    {"ModelNotFoundError", "InvalidModelPathError", "ModelLoadError",
     "ModelLoadTimeoutError", "ModelTypeMismatchError"}
\* The engine was read from an artifact.
Loaded(h) ==
    /\ h.id # 0
    /\ h.class \in EngineClasses
    /\ h.variant \in EngineClasses

\* C26: the miss of a get changes the miss counter only, by one; a get
\* that raises, raises one of the typed errors and changes neither the
\* cache nor a counter in the step it returns; an entry enters the cache
\* only from a load that returned an engine, and every cached engine was
\* read from an artifact.
C26_FailedGetChangesNothing ==
    /\ [][\A t \in Threads :
            /\ Misses(t) =>
                    /\ cache' = cache
                    /\ cache_misses' = cache_misses + 1
                    /\ <<cache_hits', duplicate_loads'>>
                          = <<cache_hits, duplicate_loads>>
            /\ FailedReturn(t) =>
                    /\ ret'[t].kind \in TypedErrors
                    /\ cache' = cache
                    /\ <<cache_hits', cache_misses', duplicate_loads'>>
                          = <<cache_hits, cache_misses, duplicate_loads>>]_vars
    /\ [][\A i \in 1..Len(cache') :
            \/ \E n \in 1..Len(cache) : cache[n] = cache'[i]
            \/ \E t \in Threads :
                    /\ ReturnsFromLoad(t)
                    /\ loadres[t] = Ok(cache'[i].h)
                    /\ req[t].key = cache'[i].key]_vars
    /\ [](\A i \in 1..Len(cache) : Loaded(cache[i].h))

\* with one model cached, a get with a path that names no file has failed
\* and a get whose load timed out has failed
C26_Witness ==
    /\ Len(cache) = 1
    /\ failures = 2
    /\ cache_misses = 3
    /\ ret[1].kind = "ModelLoadTimeoutError"
    /\ ret[2].kind = "ModelNotFoundError"

\* Loads under way.
InFlight == Cardinality({t \in Threads : pc[t] # "idle"})

\* C27: every get_model call increments exactly one of the hit and miss
\* counters, once; every miss is an insertion, a duplicate load, a failed
\* load or a load under way; no step lowers a counter, and invalidate and
\* clear_cache leave the counters alone.
C27_CountersAccountForCalls ==
    /\ [](calls = cache_hits + cache_misses)
    /\ [](cache_misses = inserts + duplicate_loads + failures + InFlight)
    /\ [][/\ cache_hits' >= cache_hits
           /\ cache_misses' >= cache_misses
           /\ duplicate_loads' >= duplicate_loads
           /\ (cache_hits' + cache_misses') - (cache_hits + cache_misses)
                 = calls' - calls
           /\ calls' - calls \in {0, 1}
           /\ (InvalidateReturns \/ (cache # <<>> /\ cache' = <<>>)) =>
                    <<cache_hits', cache_misses', duplicate_loads'>>
                      = <<cache_hits, cache_misses, duplicate_loads>>]_vars

\* one insertion, one duplicate load and one load under way, after the
\* cache had been cleared
C27_Witness ==
    /\ inserts = 1
    /\ duplicate_loads = 1
    /\ failures = 0
    /\ InFlight = 1
    /\ cache_misses = 3
    /\ cache = <<>>
    /\ inv_ret = <<>>

\* The ids of the cached engines.
CachedIds(c) == {c[i].h.id : i \in 1..Len(c)}

\* C29: the engine of a load that timed out is never cached: it is not in
\* the cache while its caller waits for the executor, and the call returns
\* with the timeout error and the cache as it was.
C29_TimedOutLoadNeverCached ==
    /\ [](\A t \in Threads :
            pc[t] = "shutdown" => req[t].id \notin CachedIds(cache))
    /\ [][\A t \in Threads :
            ReturnsFromTimeout(t) =>
                /\ ret'[t].kind = "ModelLoadTimeoutError"
                /\ cache' = cache]_vars

\* a load that timed out has returned an engine in its worker, and the key
\* is cached with the engine another call loaded
C29_Witness ==
    \E t \in Threads :
        /\ pc[t] = "shutdown"
        /\ worker[t] = "done"
        /\ loadres[t].kind = "ok"
        /\ req[t].key \in CachedKeys(cache)
        /\ cache[IndexOf(cache, req[t].key)].h.id # req[t].id

\* A get_model call hits in this step.
Hits == cache_hits' = cache_hits + 1

\* C30: with max_cache_size at least 1, when a get_model call returns an
\* engine (from a hit, from the re-check or from its own insertion) that
\* engine is the cached entry of its key and the entry is the most
\* recently used one.
C30_ReturnedEngineIsCachedLast ==
    [][MaxCacheSize >= 1 =>
        /\ \A t \in Threads :
                (ReturnsFromLoad(t) /\ ret'[t].kind = "ok") =>
                    /\ cache' # <<>>
                    /\ cache'[Len(cache')] =
                            [key |-> req[t].key, h |-> ret'[t].h]
        /\ Hits =>
                /\ cache' # <<>>
                /\ \E t \in Threads :
                        ret'[t] = Ok(cache'[Len(cache')].h)]_vars

\* the third insertion found the cache full: the least recently used
\* entry was evicted and the engine returned is the last entry
C30_Witness ==
    /\ inserts = 3
    /\ lastEvicted # "none"
    /\ Len(cache) = MaxCacheSize
    /\ \E t \in Threads :
            /\ pc[t] = "idle"
            /\ ret[t] = Ok(cache[Len(cache)].h)
            /\ cache[Len(cache)].h.id = 3

\* C7: a caller whose load timed out is not kept waiting for that load.
C7_TimeoutReturnsControl ==
    \A t \in Threads : ~(pc[t] = "shutdown" /\ worker[t] = "running")

(***************************************************************************)
(* Properties of the training service.                                     *)
(***************************************************************************)
Transitions ==
    {<<"PENDING", "RUNNING">>, <<"PENDING", "CANCELLED">>,
     <<"RUNNING", "COMPLETED">>, <<"RUNNING", "FAILED">>,
     <<"RUNNING", "CANCELLED">>}

\* C1: a job's status changes only along PENDING -> RUNNING ->
\* {COMPLETED, FAILED}, PENDING -> CANCELLED and RUNNING -> CANCELLED, so a
\* job that is COMPLETED, FAILED or CANCELLED keeps its status, also when
\* its worker finishes after the job was cancelled.
C1_StatusStateMachine ==
    [][\A j \in DOMAIN jobs :
        /\ j \in DOMAIN jobs'
        /\ \/ jobs'[j].status = jobs[j].status
           \/ <<jobs[j].status, jobs'[j].status>> \in Transitions]_vars

\* Worker w's call leaves the pipeline through the except clause in this
\* step: the stage it was in raised.
StageRaises(w) == wpc[w] \in Stages /\ wpc'[w] = "caught"

\* C11: every job that is RUNNING reaches a terminal state, given that
\* every stage returns or raises; when a stage raises while the job is
\* still RUNNING, the call returns with the job FAILED and error_message
\* the exception's message, and a FAILED job never becomes COMPLETED.
C11_RunningEndsTerminal ==
    /\ \A j \in JobIds :
            (j \in DOMAIN jobs /\ jobs[j].status = "RUNNING")
                ~> (j \in DOMAIN jobs /\ jobs[j].status \in Terminal)
    /\ [][\A w \in Workers :
            (StageRaises(w) /\ jobs[wjob[w]].status = "RUNNING") =>
                /\ jobs'[wjob[w]].status = "FAILED"
                /\ jobs'[wjob[w]].error_message = Some(wpc[w])]_vars
    /\ [][\A j \in DOMAIN jobs :
            jobs[j].status = "FAILED" => jobs'[j].status # "COMPLETED"]_vars

\* the training stage of a running job raised and the call returned with
\* the job FAILED under the exception's message
C11_Witness ==
    \E w \in Workers, j \in DOMAIN jobs :
        /\ wpc[w] = "caught"
        /\ jobs[j].status = "FAILED"
        /\ jobs[j].error_message = Some("train")
        /\ jobs[j].progress_percent = 30

SamplesInBounds(n) == MIN_N_SAMPLES <= n /\ n <= MAX_N_SAMPLES

\* C12: a job whose n_samples is below the minimum or above the maximum
\* never gets past stage 1 (no record count is ever stored for it), never
\* is COMPLETED, and when FAILED carries the message of the sample-count
\* check.
C12_SampleBoundsEnforced ==
    \A j \in DOMAIN jobs :
        ~SamplesInBounds(jobs[j].n_samples) =>
            /\ jobs[j].status # "COMPLETED"
            /\ jobs[j].record_count = None
            /\ jobs[j].status = "FAILED" =>
                    jobs[j].error_message = Some("n_samples")

\* C13: no job's log list is ever longer than MAX_LOGS_PER_JOB.
C13_LogsBounded ==
    \A j \in DOMAIN jobs : Len(jobs[j].logs) <= MAX_LOGS_PER_JOB

\* C14: no step lowers a job's progress_percent.
C14_ProgressMonotonic ==
    [][\A j \in DOMAIN jobs :
        j \in DOMAIN jobs' =>
            jobs'[j].progress_percent >= jobs[j].progress_percent]_vars

\* C28: each job's fields agree with its status.
C28_FieldsAgreeWithStatus ==
    \A j \in DOMAIN jobs :
        LET job == jobs[j]
        IN /\ job.status = "PENDING" =>
                /\ job.progress_percent = 0
                /\ job.started_at = None
                /\ job.completed_at = None
           /\ job.status = "RUNNING" =>
                /\ job.started_at # None
                /\ job.completed_at = None
           /\ job.status = "COMPLETED" =>
                /\ job.progress_percent = 100
                /\ job.started_at # None
                /\ job.completed_at # None
                /\ job.error_message = None
           /\ job.status = "FAILED" =>
                /\ job.error_message # None
                /\ job.completed_at # None
           /\ job.status = "CANCELLED" => job.completed_at # None

\* A cancel_job call returns in this step.
CancelReturns == cancel_ret' # cancel_ret \/ cancels' # cancels

\* C15: cancel_job returns True exactly when the job exists and is PENDING
\* or RUNNING under the lock; it then makes the job CANCELLED, stamps
\* completed_at, and duration_seconds when the job had started, and touches
\* no other job; a call returning False changes no job; no job has more
\* than one cancel_job call returning True.
C15_CancelOnlyActive ==
    /\ [][CancelReturns =>
            LET j == cancel_ret'[1].job
                returned == cancel_ret'[1].returned
            IN /\ returned = (/\ j \in DOMAIN jobs
                              /\ jobs[j].status \in {"PENDING", "RUNNING"})
               /\ ~returned => jobs' = jobs
               /\ returned =>
                    /\ jobs'[j].status = "CANCELLED"
                    /\ jobs'[j].completed_at = Some(now)
                    /\ jobs[j].started_at # None =>
                            jobs'[j].duration_seconds =
                                Some(now - jobs[j].started_at[1])
                    /\ \A i \in DOMAIN jobs \ {j} : jobs'[i] = jobs[i]]_vars
    /\ [](\A j \in JobIds : cancels[j] <= 1)

\* a job cancelled while RUNNING was cancelled again, and the second call
\* returned False
C15_Witness ==
    /\ cancel_ret # None
    /\ cancel_ret[1].found = "CANCELLED"
    /\ ~cancel_ret[1].returned
    /\ cancels[cancel_ret[1].job] = 1
    /\ jobs[cancel_ret[1].job].started_at # None

\* C16: cancel_job on a COMPLETED job returns False and leaves the job's
\* status, started_at, completed_at, duration_seconds, result_metrics and
\* logs as they were.
C16_CancelCompletedIsNoop ==
    [][\A j \in DOMAIN jobs :
        (/\ CancelReturns
         /\ cancel_ret'[1].job = j
         /\ jobs[j].status = "COMPLETED") =>
            /\ ~cancel_ret'[1].returned
            /\ jobs'[j].status = "COMPLETED"
            /\ jobs'[j].started_at = jobs[j].started_at
            /\ jobs'[j].completed_at = jobs[j].completed_at
            /\ jobs'[j].duration_seconds = jobs[j].duration_seconds
            /\ jobs'[j].result_metrics = jobs[j].result_metrics
            /\ jobs'[j].logs = jobs[j].logs]_vars

\* a cancel_job call found its job COMPLETED
C16_Witness ==
    /\ cancel_ret # None
    /\ cancel_ret[1].found = "COMPLETED"
    /\ ~cancel_ret[1].returned
    /\ jobs[cancel_ret[1].job].status = "COMPLETED"
    /\ jobs[cancel_ret[1].job].result_metrics = "metrics"

\* A create_job call returns in this step.
CreateReturns == DOMAIN jobs' # DOMAIN jobs
\* A get_job call for job j returns the job in this step.
GetReturns(j) ==
    /\ held' # held
    /\ DOMAIN jobs' = DOMAIN jobs
    /\ held'.kind = "job"
    /\ held'.refs = <<j>>
\* The job as a new job reads.
ReadsNew(job) ==
    /\ job.status = "PENDING"
    /\ job.progress_percent = 0
    /\ job.started_at = None
    /\ job.completed_at = None
    /\ job.result_metrics = "empty"
\* update_job_progress has been called for the job.
ProgressSet(job) == \E i \in 1..Len(job.logs) : job.logs[i].m = "progress"
\* create_job adds one job under a fresh id and starts no training.
CreateAddsOne ==
    CreateReturns =>
        /\ \E n \in JobIds \ DOMAIN jobs :
                /\ DOMAIN jobs' = DOMAIN jobs \cup {n}
                /\ ReadsNew(jobs'[n])
                /\ held'.refs = <<n>>
        /\ \A j \in DOMAIN jobs : jobs'[j] = jobs[j]
        /\ <<wpc', wjob', runs'>> = <<wpc, wjob, runs>>

C22_NonPositiveOrganizationRejected ==
    \A j \in DOMAIN jobs : jobs[j].organization_id > 0

\* C19: what a caller reads through a value returned by create_job,
\* get_job or list_jobs stays what it was when the call returned, and
\* nothing a caller does to a returned value shows in a stored job.
C19_ReturnedValuesAreSnapshots ==
    /\ ReadThrough(held, jobs) = held.snap
    /\ \A j \in DOMAIN jobs : CallerLogs(jobs[j]) = 0

\* A list_jobs call returns in this step.
ListReturns == listing # None /\ listing' = None
\* Job j passes the filters of a list_jobs call.
Matches(job, call) ==
    /\ call.organization_id # None =>
            job.organization_id = call.organization_id[1]
    /\ call.model_id # None => job.model_id = call.model_id[1]
    /\ call.status # None => job.status = call.status[1]

\* C20: list_jobs takes every stored job when it takes the lock, and
\* returns exactly those of them that pass every filter given (all of
\* them when none is given), each once, from the most recently created
\* to the oldest; neither step changes the store.
C20_ListFiltersAndSorts ==
    /\ [][(listing = None /\ listing' # None) =>
            /\ {listing'[1].refs[i] : i \in 1..Len(listing'[1].refs)}
                    = DOMAIN jobs
            /\ jobs' = jobs]_vars
    /\ [][ListReturns =>
            LET call == listing[1]
                stored == {call.refs[i] : i \in 1..Len(call.refs)}
                matching == {j \in stored : Matches(jobs[j], call)}
                res == held'.refs
            IN /\ {res[i] : i \in 1..Len(res)} = matching
               /\ Len(res) = Cardinality(matching)
               /\ \A a, b \in 1..Len(res) :
                    a < b => jobs[res[a]].created_at >= jobs[res[b]].created_at
               /\ held'.snap = ReadThrough(held', jobs)
               /\ jobs' = jobs]_vars

\* a list_jobs call filtered by organization returned two jobs created at
\* different times, the later one first
C20_Witness ==
    /\ held.kind = "list"
    /\ held.refs = <<2, 1>>
    /\ held.snap[1].created_at > held.snap[2].created_at
    /\ held.snap[1].organization_id = held.snap[2].organization_id
    /\ listing = None

\* Worker w's run_training call returns at once in this step.
ReturnsAtOnce(w) == wpc[w] # "noop" /\ wpc'[w] = "noop"

\* C8: no job's pipeline is entered more than once, whatever the number of
\* run_training calls, and a call that returns at once (missing job, or job
\* not PENDING) leaves every job as it was.
C8_PipelineAtMostOnce ==
    /\ [](\A j \in JobIds : runs[j] <= 1)
    /\ [][\A w \in Workers : ReturnsAtOnce(w) => jobs' = jobs]_vars

\* a second run_training call for a job whose pipeline is under way has
\* returned at once
C8_Witness ==
    \E w \in Workers, v \in Workers :
        /\ wpc[w] = "noop"
        /\ wpc[v] \notin {"idle", "noop"}
        /\ runs[wjob[v]] = 1
        /\ Cardinality(DOMAIN jobs) = 1

\* C9: the store never holds more than MAX_JOBS jobs.
C9_StoreBounded == Cardinality(DOMAIN jobs) <= MAX_JOBS

TerminalJobs(js) == {j \in DOMAIN js : js[j].status \in Terminal}
\* The terminal job created first (the earlier id among equal timestamps).
OldestTerminal(js) ==
    CHOOSE j \in TerminalJobs(js) :
        \A i \in TerminalJobs(js) :
            \/ js[j].created_at < js[i].created_at
            \/ js[j].created_at = js[i].created_at /\ j <= i

\* C10: jobs leave the store only when create_job finds it at capacity;
\* the job that leaves is then the oldest terminal one (never a PENDING or
\* RUNNING one), and a create_job at capacity with a terminal job in the
\* store adds its job in place of that one.
C10_EvictsOldestTerminal ==
    [][LET gone == DOMAIN jobs \ DOMAIN jobs'
           added == DOMAIN jobs' \ DOMAIN jobs
       IN /\ gone # {} =>
                /\ added # {}
                /\ Cardinality(DOMAIN jobs) >= MAX_JOBS
                /\ gone = {OldestTerminal(jobs)}
          /\ (/\ added # {}
              /\ Cardinality(DOMAIN jobs) >= MAX_JOBS
              /\ TerminalJobs(jobs) # {}) =>
                gone = {OldestTerminal(jobs)}]_vars

=============================================================================
